---- MODULE Spec2Model ----
(***************************************************************************)
(* A model of six parts   of motion-canvas:                                 *)
(*   1 ImageExporter (packages/core/src/app/ImageExporter.ts): the frame   *)
(*     export boundary with its in-flight set, ceiling wait, encode/read   *)
(*     pipeline, acknowledgments and stop();                               *)
(*   2 Layout (packages/2d, the Layout class): the size tweens             *)
(*     tweenWidth / tweenHeight / tweenSize, sizeLockCounter and           *)
(*     applyFlex, driven by the frame-stepped scheduler;                   *)
(*   3 the node tree: layout mode inheritance, layout roots, the cached    *)
(*     layout resolution and View2D.render;                                *)
(*   4 Layout.moveOffset and the local-to-parent transform;                *)
(*   5 the all() composite of the scheduler;                               *)
(*   6 the yoga tree that layoutChildren and appendedToView maintain.      *)
(* Each part has its own specification (SpecExporter, SpecLayout,          *)
(* SpecTree, SpecOffset, SpecAll, SpecYoga); the variables of the other    *)
(* parts stay at their constructed values.                                 *)
(***************************************************************************)
EXTENDS Integers, Sequences, FiniteSets, TLC

(***************************************************************************)
(* Part 1: ImageExporter                                                   *)
(***************************************************************************)

\* ImageExporter.ts:6 sets the ceiling to 256.  The model scales it down so
\* that TLC can fill the in-flight set; every formula is stated in terms of
\* EXPORT_FRAME_LIMIT, not of its value.
EXPORT_FRAME_LIMIT == 2

\* Frame numbers the render loop may submit: enough to exceed the ceiling
\* and still have one frame left to block on.
Frames == 0 .. (EXPORT_FRAME_LIMIT + 1)

\* RendererResult values passed to stop().
RendererResults == {"Success", "Error", "Aborted"}

VARIABLES
  hot,          \* import.meta.hot is defined (dev server attached)
  frameLookup,  \* ImageExporter.frameLookup: frames awaiting acknowledgment
  aborted,      \* signal.aborted of the AbortSignal handed to handleFrame
  phase,        \* "created" | "started" | "stopPolling" | "stopped"
  hf,           \* the render loop's handleFrame call (it awaits each call)
  encoding,     \* per frame: pipelines awaiting the canvas.toBlob callback
  reading,      \* per frame: pipelines awaiting the FileReader callback
  msgs,         \* per frame: export messages sent and not yet acknowledged
  stopRes,      \* the result stop() was called with ("none" before)
  stopPolled,   \* stop() went round its polling loop at least once
  dropped,      \* frames still in flight that stop()'s final clear() removed
  log           \* the last call to the logger: level and frame ("none" before)

expVars == <<hot, frameLookup, aborted, phase, hf, encoding, reading, msgs,
             stopRes, stopPolled, dropped, log>>

\* The variables of the Layout node and the scheduler (Part 2).
VARIABLES
  size,             \* declared size: desiredSize(), {x: width, y: height}
  sizeLockCounter,  \* Layout.sizeLockCounter
  task,             \* per thread: the tween generator's frame and position
  threads,          \* live threads in registration order
  pending,          \* threads the current tick has still to resume
  ticking,          \* the tick: "idle", or running "scene" code, "threads"
  started,          \* size tweens started so far
  cancels,          \* cancellations so far
  yogaFlex          \* flex grow and shrink of the yoga node: "unset",
                    \* "declared" (grow(), shrink()) or "zero"

layVars ==
  <<size, sizeLockCounter, task, threads, pending, ticking, started, cancels,
    yogaFlex>>

\* The variables of the node tree and its cached layout (Part 3).
VARIABLES
  nodeKind,   \* per node: "View2D", "Layout" or "Node" (not a Layout)
  parent,     \* per node: Node.parent(), 0 for none
  layout,     \* per node: the layout mode signal: "null", "on" or "off"
  cache,      \* per node: which @computed() results are cached and clean
  solves      \* per node: yoga.calculateLayout calls on its yoga node since
              \* the last write to a layout input of its layout subtree

treeVars == <<nodeKind, parent, layout, cache, solves>>

\* The variables of the node whose offset is moved (Part 4).
VARIABLES
  box,        \* the node's size, position, offset, scale and rotation
  moved       \* moveOffset was called: the box before the call, or "no"

offVars == <<box, moved>>

\* The variables of an all() composite and its children (Part 5).
VARIABLES
  frame,      \* the scheduler's frame counter
  child,      \* per child: its duration, progress and state
  composite   \* the all() task: state and the frame it completed at

allVars == <<frame, child, composite>>

\* The variables of the yoga tree under the node tree (Part 6).
VARIABLES
  yogaChildren,  \* per node: the children of its yoga node, in order
  yogaValid,     \* per node: layoutChildren() / appendedToView() is cached
  yogaCalled,    \* the nodes whose layoutChildren() / appendedToView() the
                 \* last read of the layout called
  modeWrites     \* writes to a layout mode so far

yogaVars == <<yogaChildren, yogaValid, yogaCalled, modeWrites>>

vars == <<expVars, layVars, treeVars, offVars, allVars, yogaVars>>

\* What the actions of one part leave alone.
notExpVars == <<layVars, treeVars, offVars, allVars, yogaVars>>
notLayVars == <<expVars, treeVars, offVars, allVars, yogaVars>>
notTreeVars == <<expVars, layVars, offVars, allVars, yogaVars>>
notOffVars == <<expVars, layVars, treeVars, allVars, yogaVars>>
notAllVars == <<expVars, layVars, treeVars, offVars, yogaVars>>
notYogaVars == <<expVars, layVars, offVars, allVars>>

NoLog == [level |-> "none", frame |-> 0]

HfIdle == [pc |-> "idle", frame |-> 0, outcome |-> "none", waited |-> FALSE]

\* The exporter after construction (import.meta.hot is given by the build).
ExpConstructed ==
  /\ frameLookup = {}
  /\ aborted = FALSE
  /\ phase = "created"
  /\ hf = HfIdle
  /\ encoding = [f \in Frames |-> 0]
  /\ reading = [f \in Frames |-> 0]
  /\ msgs = [f \in Frames |-> 0]
  /\ stopRes = "none"
  /\ stopPolled = FALSE
  /\ dropped = {}
  /\ log = NoLog

\* handleFrame, line 41: this.frameLookup.has(frame)
AlreadyExportedNever(lookup, f) == FALSE
AlreadyExported(lookup, f) == f \in lookup

\* handleFrame, line 46: this.frameLookup.size > EXPORT_FRAME_LIMIT
CeilingExceededLate(lookup) == Cardinality(lookup) > EXPORT_FRAME_LIMIT + 1
CeilingExceeded(lookup) == Cardinality(lookup) > EXPORT_FRAME_LIMIT

\* handleFrame, line 48: if (signal.aborted) return;  after the retry delay
AbortedAfterWaitIgnored(sig) == FALSE
AbortedAfterWait(sig) == sig

\* handleFrame, lines 68 and 79: if (signal.aborted) return;  in the pipeline
AbortedInPipelineIgnored(sig) == FALSE
AbortedInPipeline(sig) == sig

\* stop, lines 97-98: result === Success and this.frameLookup.size > 0
StopMustWaitForLast(result, lookup) ==
  result = "Success" /\ Cardinality(lookup) > 1
StopMustWait(result, lookup) == result = "Success" /\ Cardinality(lookup) > 0

\* start(): this.frameLookup.clear()
Start ==
  /\ phase = "created"
  /\ phase' = "started"
  /\ frameLookup' = {}
  /\ UNCHANGED <<hot, aborted, hf, encoding, reading, msgs, stopRes,
                 stopPolled, dropped, log>>
  /\ UNCHANGED notExpVars

\* handleFrame, lines 53-54: add the frame and start its pipeline, whose
\* first hand-off is canvas.toBlob.
Accept(f, waited) ==
  /\ frameLookup' = frameLookup \cup {f}
  /\ encoding' = [encoding EXCEPT ![f] = @ + 1]
  /\ hf' = [pc |-> "idle", frame |-> f, outcome |-> "accepted",
            waited |-> waited]

\* handleFrame from its entry to its first await or its return.
HandleFrame(f) ==
  /\ phase = "started"
  /\ hf.pc = "idle"
  /\ IF AlreadyExported(frameLookup, f)
       THEN /\ log' = [level |-> "warn", frame |-> f]
            /\ hf' = [pc |-> "idle", frame |-> f, outcome |-> "rejected",
                      waited |-> FALSE]
            /\ UNCHANGED <<frameLookup, encoding>>
       ELSE IF ~hot
         THEN /\ hf' = [pc |-> "idle", frame |-> f, outcome |-> "noop",
                        waited |-> FALSE]
              /\ UNCHANGED <<frameLookup, encoding, log>>
         ELSE IF CeilingExceeded(frameLookup)
           THEN /\ hf' = [pc |-> "wait", frame |-> f, outcome |-> "pending",
                          waited |-> TRUE]
                /\ UNCHANGED <<frameLookup, encoding, log>>
           ELSE /\ Accept(f, FALSE)
                /\ UNCHANGED log
  /\ UNCHANGED <<hot, aborted, phase, reading, msgs, stopRes, stopPolled,
                 dropped>>
  /\ UNCHANGED notExpVars

\* handleFrame resumed after the EXPORT_RETRY_DELAY timeout (lines 47-53).
RetryTimer ==
  /\ hf.pc = "wait"
  /\ IF AbortedAfterWait(aborted)
       THEN /\ hf' = [hf EXCEPT !.pc = "idle", !.outcome = "aborted"]
            /\ UNCHANGED <<frameLookup, encoding>>
       ELSE IF CeilingExceeded(frameLookup)
         THEN UNCHANGED <<hf, frameLookup, encoding>>
         ELSE Accept(hf.frame, TRUE)
  /\ UNCHANGED <<hot, aborted, phase, reading, msgs, stopRes, stopPolled,
                 dropped, log>>
  /\ UNCHANGED notExpVars

\* The catch of the pipeline, lines 88-91: this.frameLookup.delete(frame)
\* and this.logger.error(e).
PipelineFailedKeepsFrame(f) ==
  /\ frameLookup' = frameLookup
  /\ log' = [level |-> "error", frame |-> f]
PipelineFailed(f) ==
  /\ frameLookup' = frameLookup \ {f}
  /\ log' = [level |-> "error", frame |-> f]

\* The canvas.toBlob callback of one pipeline of frame f (lines 55-68);
\* ok = FALSE is a null blob, which rejects into the catch of lines 88-91.
ToBlobDone(f, ok) ==
  /\ encoding[f] > 0
  /\ encoding' = [encoding EXCEPT ![f] = @ - 1]
  /\ IF ~ok
       THEN /\ PipelineFailed(f)
            /\ UNCHANGED reading
       ELSE IF AbortedInPipeline(aborted)
         THEN UNCHANGED <<frameLookup, log, reading>>
         ELSE /\ reading' = [reading EXCEPT ![f] = @ + 1]
              /\ UNCHANGED <<frameLookup, log>>
  /\ UNCHANGED <<hot, aborted, phase, hf, msgs, stopRes, stopPolled,
                 dropped>>
  /\ UNCHANGED notExpVars

\* The FileReader callback of one pipeline of frame f (lines 71-87);
\* ok = FALSE is reader.onerror.
ReadDone(f, ok) ==
  /\ reading[f] > 0
  /\ reading' = [reading EXCEPT ![f] = @ - 1]
  /\ IF ~ok
       THEN /\ PipelineFailed(f)
            /\ UNCHANGED msgs
       ELSE IF AbortedInPipeline(aborted)
         THEN UNCHANGED <<frameLookup, log, msgs>>
         ELSE /\ msgs' = [msgs EXCEPT ![f] = @ + 1]
              /\ UNCHANGED <<frameLookup, log>>
  /\ UNCHANGED <<hot, aborted, phase, hf, encoding, stopRes, stopPolled,
                 dropped>>
  /\ UNCHANGED notExpVars

\* The 'motion-canvas:export-ack' handler of the constructor (lines 20-22),
\* run for an export message the server received.
ExportAck(f) ==
  /\ msgs[f] > 0
  /\ msgs' = [msgs EXCEPT ![f] = @ - 1]
  /\ frameLookup' = frameLookup \ {f}
  /\ UNCHANGED <<hot, aborted, phase, hf, encoding, reading, stopRes,
                 stopPolled, dropped, log>>
  /\ UNCHANGED notExpVars

\* The owner of the AbortSignal aborts it.
Abort ==
  /\ ~aborted
  /\ aborted' = TRUE
  /\ UNCHANGED <<hot, frameLookup, phase, hf, encoding, reading, msgs,
                 stopRes, stopPolled, dropped, log>>
  /\ UNCHANGED notExpVars

\* stop(result) from its entry to its first await or its return.
Stop(result) ==
  /\ phase = "started"
  /\ hf.pc = "idle"
  /\ stopRes' = result
  /\ IF StopMustWait(result, frameLookup)
       THEN /\ phase' = "stopPolling"
            /\ stopPolled' = TRUE
            /\ UNCHANGED <<frameLookup, dropped>>
       ELSE /\ phase' = "stopped"
            /\ dropped' = frameLookup
            /\ frameLookup' = {}
            /\ UNCHANGED stopPolled
  /\ UNCHANGED <<hot, aborted, hf, encoding, reading, msgs, log>>
  /\ UNCHANGED notExpVars

\* stop resumed after the EXPORT_RETRY_DELAY timeout (lines 98-102).
StopTimer ==
  /\ phase = "stopPolling"
  /\ IF StopMustWait(stopRes, frameLookup)
       THEN UNCHANGED <<phase, frameLookup, dropped>>
       ELSE /\ phase' = "stopped"
            /\ dropped' = frameLookup
            /\ frameLookup' = {}
  /\ UNCHANGED <<hot, aborted, hf, encoding, reading, msgs, stopRes,
                 stopPolled, log>>
  /\ UNCHANGED notExpVars

ExpNext ==
  \/ Start
  \/ \E f \in Frames : HandleFrame(f)
  \/ RetryTimer
  \/ \E f \in Frames, ok \in BOOLEAN : ToBlobDone(f, ok)
  \/ \E f \in Frames, ok \in BOOLEAN : ReadDone(f, ok)
  \/ \E f \in Frames : ExportAck(f)
  \/ Abort
  \/ \E r \in RendererResults : Stop(r)
  \/ StopTimer

(***************************************************************************)
(* Part 2: Layout size tweens and the scheduler that steps them             *)
(***************************************************************************)

\* Size tweens started on the node in one behaviour; each runs in a thread
\* of its own, so this is also the number of threads that can overlap.
MaxTweens == 2

\* Longest tween, in frames.
MaxDuration == 2

\* Cancellations per behaviour.
MaxCancels == 1

\* What the layout engine resolves an automatic length to.
NaturalSize == 4

\* The size of the parent that percentages refer to.
ParentSize == 16

Tasks == 1 .. MaxTweens

\* Length (partials.Length): a number of pixels, a percentage, or null for
\* an automatic length.
Auto == [kind |-> "auto", n |-> 0]
Pct == [kind |-> "pct", n |-> 50]
Num(n) == [kind |-> "num", n |-> n]

\* The lengths scene code writes and tweens to.  A percentage takes the same
\* branches as null everywhere in the tweens (typeof ... !== 'number'), so
\* the widths draw the non-numeric length from null and the heights from a
\* percentage.
Lengths(d) == IF d = "x" THEN {Auto, Num(12)} ELSE {Pct, Num(12)}

\* typeof length === 'number'
IsNum(len) == len.kind = "num"

TimingFunctions == {"easeInQuad"}

XY(a, b) == [x |-> a, y |-> b]

IdleTask ==
  [pc |-> "idle", kind |-> "width", value |-> XY(Auto, Auto), time |-> 0,
   timing |-> "linear", from |-> XY(0, 0), to |-> XY(0, 0), lock |-> FALSE,
   p |-> 0, alone |-> FALSE, c0 |-> 0]

\* @initial({x: null, y: null}) size, @initial(0) sizeLockCounter
LayInit ==
  /\ size = XY(Auto, Auto)
  /\ sizeLockCounter = 0
  /\ task = [t \in Tasks |-> IdleTask]
  /\ threads = <<>>
  /\ pending = <<>>
  /\ ticking = "idle"
  /\ started = 0
  /\ cancels = 0
  /\ yogaFlex = "unset"

\* getWidth / getHeight: the computed length the layout engine returns for a
\* declared length (a number resolves to itself, an automatic length to the
\* natural size, a percentage to its share of the parent).
Resolve(len) ==
  IF len.kind = "num" THEN len.n
  ELSE IF len.kind = "auto" THEN NaturalSize
  ELSE (ParentSize * len.n) \div 100

\* The dimensions a tween of this kind writes.
Dims(kind) ==
  IF kind = "width" THEN {"x"} ELSE IF kind = "height" THEN {"y"}
  ELSE {"x", "y"}

\* this.size.x(v) / this.size.y(v) / this.size(v)
WriteSize(kind, sz, v) ==
  [d \in {"x", "y"} |-> IF d \in Dims(kind) THEN v[d] ELSE sz[d]]

\* const lock = typeof width !== 'number' || typeof value !== 'number';
\* tweenSize calls lockSize() unconditionally.
TweenLockTargetOnly(kind, sz, value) ==
  \E d \in Dims(kind) : ~IsNum(value[d])
TweenLock(kind, sz, value) ==
  IF kind = "size" THEN TRUE
  ELSE \E d \in Dims(kind) : ~IsNum(sz[d]) \/ ~IsNum(value[d])

\* let from: the resolved size when the declared one is not a number.
TweenFrom(kind, sz, value) ==
  LET resolved == IF kind = "size"
                    THEN ~IsNum(sz.x) \/ ~IsNum(sz.y)
                    ELSE TweenLock(kind, sz, value)
  IN [d \in {"x", "y"} |->
        IF d \notin Dims(kind) THEN 0
        ELSE IF resolved THEN Resolve(sz[d]) ELSE sz[d].n]

\* let to: the target is written and read back resolved unless it is a
\* number already.
TweenTo(kind, sz, value) ==
  LET literal == IF kind = "size"
                   THEN IsNum(value.x) /\ IsNum(value.y)
                   ELSE ~TweenLock(kind, sz, value)
  IN [d \in {"x", "y"} |->
        IF d \notin Dims(kind) THEN 0
        ELSE IF literal THEN value[d].n ELSE Resolve(value[d])]

\* timingFunction(p / time) as a fraction num / den.
TimingNum(timing, p, time) == IF timing = "linear" THEN p ELSE p * p
TimingDen(timing, p, time) == IF timing = "linear" THEN time ELSE time * time

\* interpolationFunction(from, to, num / den)
Lerp(from, to, num, den) == from + ((to - from) * num) \div den

\* The updater of the tween: the length written at progress p / time.
TweenStepLengthTarget(tk, p) == tk.value
TweenStepLength(tk, p) ==
  [d \in {"x", "y"} |->
     Num(Lerp(tk.from[d], tk.to[d],
              TimingNum(tk.timing, p, tk.time),
              TimingDen(tk.timing, p, tk.time)))]

\* this.size.x(value) after the tween: the length the tween leaves.
TweenFinalLengthResolved(tk) == XY(Num(tk.to.x), Num(tk.to.y))
TweenFinalLength(tk) == tk.value

\* The target is written to size and read back resolved (lines 410-413,
\* 451-454, 505-506) unless `to` is taken from the literal target.
TweenWritesTarget(kind, sz, value) ==
  IF kind = "size" THEN ~(IsNum(value.x) /\ IsNum(value.y))
  ELSE TweenLock(kind, sz, value)

\* Lines 409-421 (450-462, 497-513): the writes to size from the call to the
\* first suspension point inside tween(), in order: the target when it has
\* to be resolved, then `from`, then the updater at progress 0.  No yield
\* stands between them.
TweenWritesYieldOnTarget(tk, sz) ==
  IF TweenWritesTarget(tk.kind, sz, tk.value)
    THEN <<WriteSize(tk.kind, sz, tk.value)>>
  ELSE <<WriteSize(tk.kind, sz, XY(Num(tk.from.x), Num(tk.from.y))),
         WriteSize(tk.kind, sz, TweenStepLength(tk, 0))>>
TweenWrites(tk, sz) ==
  (IF TweenWritesTarget(tk.kind, sz, tk.value)
     THEN <<WriteSize(tk.kind, sz, tk.value)>>
   ELSE <<>>)
  \o <<WriteSize(tk.kind, sz, XY(Num(tk.from.x), Num(tk.from.y))),
        WriteSize(tk.kind, sz, TweenStepLength(tk, 0))>>

\* The tween reads the resolved size (this.size.x(), this.size()) for its
\* `from` or its `to`, which resolves the layout.
TweenResolves(kind, sz, value) ==
  IF kind = "size"
    THEN ~(IsNum(sz.x) /\ IsNum(sz.y)) \/ ~(IsNum(value.x) /\ IsNum(value.y))
  ELSE TweenLock(kind, sz, value)

\* applyFlex, lines 1115-1121: what it sets the yoga node's flex grow and
\* shrink to.
ApplyFlexSingleLock(counter) == IF counter = 1 THEN "zero" ELSE "declared"
ApplyFlex(counter) == IF counter > 0 THEN "zero" ELSE "declared"

\* lockSize / releaseSize
LockSize(c) == c + 1
ReleaseSizeNever(c) == c
ReleaseSize(c) == c - 1

Remove(seq, t) == SelectSeq(seq, LAMBDA u : u # t)

Active(t) == task[t].pc = "suspended"

\* The record of a thread that has ended after p resumptions: the
\* generator's frame is gone, what it was asked to do is remembered until
\* the scheduler removes it.
Ended(tk, how, p) ==
  [IdleTask EXCEPT !.pc = how, !.kind = tk.kind, !.value = tk.value,
                   !.lock = tk.lock, !.p = p]

\* setWidth / setHeight / the size setter called by scene code outside of
\* any tween.
SetSize(kind, v) ==
  /\ ticking = "scene"
  /\ \A t \in Tasks : ~Active(t)
  /\ size' = WriteSize(kind, size, v)
  /\ size' # size
  /\ UNCHANGED <<sizeLockCounter, task, threads, pending, ticking, started,
                 cancels, yogaFlex>>
  /\ UNCHANGED notLayVars

\* tweenWidth / tweenHeight / tweenSize from the call to the first
\* suspension point inside tween(), or to the end when time is 0.
StartTween(t, kind, value, time, timing) ==
  /\ ticking = "scene"
  /\ started < MaxTweens
  /\ t = started + 1
  /\ started' = started + 1
  /\ LET tk == [pc |-> "suspended", kind |-> kind, value |-> value,
                time |-> time, timing |-> timing,
                from |-> TweenFrom(kind, size, value),
                to |-> TweenTo(kind, size, value),
                lock |-> TweenLock(kind, size, value),
                p |-> 0,
                alone |-> \A u \in Tasks : ~Active(u),
                c0 |-> sizeLockCounter]
         others == [u \in Tasks |-> [task[u] EXCEPT !.alone = FALSE]]
         locked == IF tk.lock THEN LockSize(sizeLockCounter)
                   ELSE sizeLockCounter
     IN IF time = 0
          THEN /\ size' = WriteSize(kind, size, TweenFinalLength(tk))
               /\ sizeLockCounter' =
                    IF tk.lock THEN ReleaseSize(locked) ELSE locked
               /\ task' = [others EXCEPT ![t] = Ended(tk, "completed", 0)]
               /\ UNCHANGED threads
          ELSE /\ size' = TweenWrites(tk, size)[Len(TweenWrites(tk, size))]
               /\ sizeLockCounter' = locked
               /\ task' = [others EXCEPT ![t] = tk]
               /\ threads' = Append(threads, t)
  /\ yogaFlex' = IF TweenResolves(kind, size, value)
                   THEN ApplyFlex(sizeLockCounter)
                 ELSE yogaFlex
  /\ UNCHANGED <<pending, ticking, cancels>>
  /\ UNCHANGED notLayVars

\* The scheduler starts a tick: every live thread is to be resumed once, in
\* registration order.  The scene's own thread registered first, before the
\* tweens it started, so its code (SetSize, StartTween, Cancel) runs before
\* the tweens are resumed.
BeginTick ==
  /\ ticking = "idle"
  /\ ticking' = "scene"
  /\ pending' = threads
  /\ UNCHANGED <<size, sizeLockCounter, task, threads, started, cancels,
                 yogaFlex>>
  /\ UNCHANGED notLayVars

\* The scheduler resumes the next thread: tween() calls the updater for the
\* new progress and suspends again, or, at the end of the duration, calls it
\* with progress 1 and returns into tweenWidth / tweenHeight / tweenSize,
\* which writes the target and releases the lock.
Resume ==
  /\ ticking # "idle"
  /\ ticking' = "threads"
  /\ pending # <<>>
  /\ LET t == Head(pending)
         tk == task[t]
         p == tk.p + 1
     IN /\ pending' = Tail(pending)
        /\ IF p < tk.time
             THEN /\ size' = WriteSize(tk.kind, size, TweenStepLength(tk, p))
                  /\ task' = [task EXCEPT ![t].p = p]
                  /\ UNCHANGED <<sizeLockCounter, threads>>
             ELSE /\ size' = WriteSize(tk.kind, size, TweenFinalLength(tk))
                  /\ sizeLockCounter' =
                       IF tk.lock THEN ReleaseSize(sizeLockCounter)
                       ELSE sizeLockCounter
                  /\ task' = [task EXCEPT ![t] = Ended(tk, "completed", p)]
                  /\ threads' = Remove(threads, t)
  /\ UNCHANGED <<started, cancels, yogaFlex>>
  /\ UNCHANGED notLayVars

\* The scheduler ends the tick and removes the completed and cancelled
\* threads; the frame is then rendered, which resolves the layout and with
\* it runs applyFlex.
EndTick ==
  /\ ticking # "idle"
  /\ pending = <<>>
  /\ ticking' = "idle"
  /\ task' = [t \in Tasks |->
                IF task[t].pc \in {"completed", "cancelled"}
                  THEN [IdleTask EXCEPT !.pc = "removed"]
                ELSE task[t]]
  /\ yogaFlex' = ApplyFlex(sizeLockCounter)
  /\ UNCHANGED <<size, sizeLockCounter, threads, pending, started, cancels>>
  /\ UNCHANGED notLayVars

\* A suspended thread is cancelled: it is never resumed again and performs
\* no further writes.
Cancel(t) ==
  /\ ticking = "scene"
  /\ Active(t)
  /\ cancels < MaxCancels
  /\ cancels' = cancels + 1
  /\ task' = [task EXCEPT ![t] = Ended(task[t], "cancelled", task[t].p)]
  /\ threads' = Remove(threads, t)
  /\ pending' = Remove(pending, t)
  /\ UNCHANGED <<size, sizeLockCounter, ticking, started, yogaFlex>>
  /\ UNCHANGED notLayVars

\* The targets a tween of each kind may be given.
Targets(kind) ==
  IF kind = "width" THEN {XY(v, Auto) : v \in Lengths("x")}
  ELSE IF kind = "height" THEN {XY(Auto, v) : v \in Lengths("y")}
  ELSE {XY(v, w) : v \in Lengths("x"), w \in Lengths("y")}

Kinds == {"width", "height", "size"}

\* The durations a tween may be given, in frames: none, or MaxDuration.
Durations == {0, MaxDuration}

LayNext ==
  \/ \E kind \in {"width", "height"} :
       \E value \in Targets(kind) : SetSize(kind, value)
  \/ \E t \in Tasks, kind \in Kinds, time \in Durations,
        timing \in TimingFunctions :
       \E value \in Targets(kind) : StartTween(t, kind, value, time, timing)
  \/ BeginTick
  \/ Resume
  \/ EndTick
  \/ \E t \in Tasks : Cancel(t)

(***************************************************************************)
(* Part 3: the node tree, layoutEnabled / isLayoutRoot and the cached      *)
(* layout resolution (computedSize, computedPosition, requestLayoutUpdate, *)
(* updateLayout)                                                           *)
(***************************************************************************)

\* Nodes of the tree.  Node 1 is the top; the parent of a node has a smaller
\* number, so the numbers follow the document order.
MaxNodes == 3

Nodes == 1 .. MaxNodes

\* layout(): LayoutMode = boolean | null
Modes == {"null", "on", "off"}

NoCache == [req |-> FALSE, upd |-> FALSE, size |-> FALSE, pos |-> FALSE]

\* child instanceof Layout (View2D extends Rect, a Layout)
IsLayout(n) == nodeKind[n] \in {"View2D", "Layout"}

LayoutNodes == {n \in Nodes : IsLayout(n)}

\* A view with a chain of Layout nodes below it, nothing resolved yet.
TreeConstructed ==
  /\ nodeKind = [n \in Nodes |-> IF n = 1 THEN "View2D" ELSE "Layout"]
  /\ parent = [n \in Nodes |-> n - 1]
  /\ layout = [n \in Nodes |-> "null"]
  /\ cache = [n \in Nodes |-> NoCache]
  /\ solves = [n \in Nodes |-> 0]

\* Any tree of MaxNodes nodes: the top is a View2D or a detached Layout, the
\* others are Layout nodes or plain Nodes; only a Layout has a layout mode.
TreeInputs ==
  /\ nodeKind \in [Nodes -> {"View2D", "Layout", "Node"}]
  /\ nodeKind[1] # "Node"
  /\ \A n \in Nodes \ {1} : nodeKind[n] # "View2D"
  /\ parent \in [Nodes -> 0 .. MaxNodes]
  /\ parent[1] = 0
  /\ \A n \in Nodes \ {1} : parent[n] \in 1 .. (n - 1)
  /\ layout \in [Nodes -> Modes]
  /\ \A n \in Nodes : nodeKind[n] = "Node" => layout[n] = "null"
  /\ cache = [n \in Nodes |-> NoCache]
  /\ solves = [n \in Nodes |-> 0]

\* parentTransform(): this.findAncestor(is(Layout)), 0 for null
RECURSIVE ParentTransform(_)
ParentTransform(n) ==
  IF parent[n] = 0 THEN 0
  ELSE IF IsLayout(parent[n]) THEN parent[n]
  ELSE ParentTransform(parent[n])

\* layoutEnabled():
\*   this.layout() ?? this.parentTransform()?.layoutEnabled() ?? false
RECURSIVE LayoutEnabled(_)
LayoutEnabledOr(n) ==
  IF layout[n] = "on" THEN TRUE
  ELSE IF ParentTransform(n) = 0 THEN FALSE
  ELSE LayoutEnabled(ParentTransform(n))
LayoutEnabled(n) ==
  IF layout[n] # "null" THEN layout[n] = "on"
  ELSE IF ParentTransform(n) = 0 THEN FALSE
  ELSE LayoutEnabled(ParentTransform(n))

\* isLayoutRoot():
\*   !this.layoutEnabled() || !this.parentTransform()?.layoutEnabled()
IsLayoutRootOwnMode(n) == ~LayoutEnabled(n)
IsLayoutRoot(n) ==
  \/ ~LayoutEnabled(n)
  \/ ~(ParentTransform(n) # 0 /\ LayoutEnabled(ParentTransform(n)))

\* appendedToView(): returns isLayoutRoot()
AppendedToViewAlways(n) == TRUE
AppendedToView(n) == IsLayoutRoot(n)

\* this.children(), in document order
Children(n) ==
  SelectSeq([i \in 1 .. MaxNodes |-> i], LAMBDA m : parent[m] = n)

\* layoutChildren(): the queue loop of lines 842-856.
RECURSIVE LayoutChildrenFrom(_, _)
LayoutChildrenFrom(queue, result) ==
  IF queue = <<>> THEN result
  ELSE LET c == Head(queue)
       IN IF IsLayout(c)
            THEN LayoutChildrenFrom(Tail(queue),
                   IF LayoutEnabled(c) THEN Append(result, c) ELSE result)
            ELSE LayoutChildrenFrom(Children(c) \o Tail(queue), result)

LayoutChildren(n) == LayoutChildrenFrom(Children(n), <<>>)

\* @computed(): a cached result is returned without running the method.
RequestCachedNever(c, n) == FALSE
RequestCached(c, n) == c[n].req

\* updateLayout(): applyFont, applyFlex, then the layout children's
\* updateLayout; c is the cache, the result the cache afterwards.
RECURSIVE UpdateLayout(_, _)
RECURSIVE UpdateLayoutEach(_, _)
UpdateLayoutEach(c, children) ==
  IF children = <<>> THEN c
  ELSE UpdateLayoutEach(UpdateLayout(c, Head(children)), Tail(children))
UpdateLayout(c, n) ==
  IF c[n].upd THEN c
  ELSE LET c1 == [c EXCEPT ![n].upd = TRUE]
       IN IF LayoutEnabled(n) THEN UpdateLayoutEach(c1, LayoutChildren(n))
          ELSE c1

\* requestLayoutUpdate() of Layout and of View2D; st is the cache and the
\* solver calls, the result both afterwards.
RECURSIVE RequestLayoutUpdate(_, _)
RequestLayoutUpdate(st, n) ==
  IF RequestCached(st.cache, n) THEN st
  ELSE IF nodeKind[n] = "View2D" \/ AppendedToView(n)
    THEN [cache |-> [UpdateLayout(st.cache, n) EXCEPT ![n].req = TRUE],
          solves |-> [st.solves EXCEPT ![n] = @ + 1]]
    ELSE LET up == RequestLayoutUpdate(st, ParentTransform(n))
         IN [cache |-> [up.cache EXCEPT ![n].req = TRUE],
             solves |-> up.solves]

\* computedSize() / computedPosition(): which is "size" or "pos".
Computed(st, n, which) ==
  IF st.cache[n][which] THEN st
  ELSE LET up == RequestLayoutUpdate(st, n)
       IN [cache |-> [up.cache EXCEPT ![n][which] = TRUE],
           solves |-> up.solves]

TreeState == [cache |-> cache, solves |-> solves]

\* The layout root that resolves node n.
RECURSIVE RootOf(_)
RootOf(n) == IF IsLayoutRoot(n) THEN n ELSE RootOf(ParentTransform(n))

\* The nodes whose updateLayout has run node m's applyFlex.
RECURSIVE UpdateChain(_)
UpdateChain(m) ==
  IF IsLayoutRoot(m) THEN {m} ELSE {m} \cup UpdateChain(ParentTransform(m))

\* Scene code reads computedSize() of a Layout node.
ComputedSize(n) ==
  /\ IsLayout(n)
  /\ LET st == Computed(TreeState, n, "size")
     IN cache' = st.cache /\ solves' = st.solves
  /\ UNCHANGED <<nodeKind, parent, layout>>
  /\ UNCHANGED notTreeVars

\* Scene code reads computedPosition() of a Layout node.
ComputedPosition(n) ==
  /\ IsLayout(n)
  /\ LET st == Computed(TreeState, n, "pos")
     IN cache' = st.cache /\ solves' = st.solves
  /\ UNCHANGED <<nodeKind, parent, layout>>
  /\ UNCHANGED notTreeVars

\* View2D.render: this.computedSize(); this.computedPosition(); then the
\* nodes are drawn (clip() is false, its initial value).
Render ==
  /\ nodeKind[1] = "View2D"
  /\ LET st == Computed(Computed(TreeState, 1, "size"), 1, "pos")
     IN cache' = st.cache /\ solves' = st.solves
  /\ UNCHANGED <<nodeKind, parent, layout>>
  /\ UNCHANGED notTreeVars

\* Layout.draw of a node whose clip() is true: it reads computedSize().
Draw(n) ==
  /\ IsLayout(n)
  /\ LET st == Computed(TreeState, n, "size")
     IN cache' = st.cache /\ solves' = st.solves
  /\ UNCHANGED <<nodeKind, parent, layout>>
  /\ UNCHANGED notTreeVars

\* Scene code writes a layout input of Layout node m (setWidth, setHeight):
\* every cached result that read it, directly or through another cached
\* result, is dirty.
SetLayoutInput(m) ==
  /\ IsLayout(m)
  /\ cache' = [x \in Nodes |->
                 IF ~IsLayout(x) THEN cache[x]
                 ELSE [req |-> cache[x].req /\ RootOf(x) # RootOf(m),
                       upd |-> cache[x].upd /\ x \notin UpdateChain(m),
                       size |-> cache[x].size /\ RootOf(x) # RootOf(m),
                       pos |-> cache[x].pos /\ RootOf(x) # RootOf(m)]]
  /\ solves' = [solves EXCEPT ![RootOf(m)] = 0]
  /\ UNCHANGED <<nodeKind, parent, layout>>
  /\ UNCHANGED notTreeVars

TreeNext ==
  \/ \E n \in Nodes : ComputedSize(n)
  \/ \E n \in Nodes : ComputedPosition(n)
  \/ Render
  \/ \E n \in Nodes : Draw(n)
  \/ \E m \in Nodes : SetLayoutInput(m)

(***************************************************************************)
(* Part 4: Layout.moveOffset and Layout.localToParent                      *)
(***************************************************************************)

\* Sizes are even so that half a size is a whole number; offsets are the
\* origins of the box (-1, 0, 1 per axis); the rotation is in degrees.
BoxSizes == {2, 4}
Offsets == {-1, 0, 1}
Scales == {1, 2}
Rotations == {0, 90}

Vec(x, y) == [x |-> x, y |-> y]

\* A node at the origin of its parent with its offset in the middle.
OffConstructed ==
  /\ box = [size |-> Vec(2, 2), position |-> Vec(0, 0), offset |-> Vec(0, 0),
            scale |-> Vec(1, 1), rotation |-> 0]
  /\ moved = <<>>

\* Any size, offset, scale and rotation of the node.
OffInputs ==
  /\ box \in [size : {Vec(w, h) : w \in BoxSizes, h \in BoxSizes},
              position : {Vec(0, 0)},
              offset : {Vec(x, y) : x \in Offsets, y \in Offsets},
              scale : {Vec(x, y) : x \in Scales, y \in Scales},
              rotation : Rotations]
  /\ moved = <<>>

\* matrix.rotateSelf(0, 0, rotation) applied to a vector
Rotate(v, rotation) ==
  IF rotation = 0 THEN v ELSE Vec(0 - v.y, v.x)

\* localToParent(): the node's matrix (translation by the position, the
\* rotation, the scale), then the translation by size * offset * -0.5;
\* applied to the local point v.
LocalToParent(b, v) ==
  LET translate == Vec(0 - (b.size.x * b.offset.x) \div 2,
                       0 - (b.size.y * b.offset.y) \div 2)
      shifted == Vec(v.x + translate.x, v.y + translate.y)
      scaled == Vec(shifted.x * b.scale.x, shifted.y * b.scale.y)
      rotated == Rotate(scaled, b.rotation)
  IN Vec(b.position.x + rotated.x, b.position.y + rotated.y)

\* BBox.fromSizeCentered(size): the corners of the node's box
Corners(b) ==
  {Vec(sx * (b.size.x \div 2), sy * (b.size.y \div 2)) :
     sx \in {-1, 1}, sy \in {-1, 1}}

\* The rectangle the node occupies in its parent's space.
ParentRect(b) == {LocalToParent(b, c) : c \in Corners(b)}

\* moveOffset(offset)
MoveOffset(offset) ==
  /\ LET half == Vec(box.size.x \div 2, box.size.y \div 2)
         oldOffset == Vec(box.offset.x * half.x, box.offset.y * half.y)
         newOffset == Vec(offset.x * half.x, offset.y * half.y)
     IN box' = [box EXCEPT
                  !.offset = offset,
                  !.position = Vec(box.position.x + newOffset.x - oldOffset.x,
                                   box.position.y + newOffset.y - oldOffset.y)]
  /\ moved' = <<box>>
  /\ UNCHANGED notOffVars

OffNext == \E x \in Offsets, y \in Offsets : MoveOffset(Vec(x, y))

(***************************************************************************)
(* Part 5: the all() combinator under the frame-stepped scheduler          *)
(***************************************************************************)

\* Longest child of an all(), in frames.
MaxFrames == 3

\* The children of the all(), in the order they are given.
AllChildren == {1, 2}

IdleChild == [pc |-> "idle", time |-> 0, p |-> 0]

\* Nothing started yet, at frame 0.
AllConstructed ==
  /\ frame = 0
  /\ child = [i \in AllChildren |-> IdleChild]
  /\ composite = [pc |-> "idle", at |-> 0, ticking |-> FALSE,
                  pending |-> <<>>]

\* The children not yet completed, in registration order.
LiveChildren ==
  SelectSeq(<<1, 2>>, LAMBDA i : child[i].pc = "suspended")

\* Scene code runs all(children) in frame 0: every child is started in this
\* tick and runs to its first suspension point; the composite suspends until
\* every child has completed.
AllStart(times) ==
  /\ composite.pc = "idle"
  /\ child' = [i \in AllChildren |->
                 [pc |-> "suspended", time |-> times[i], p |-> 0]]
  /\ composite' = [composite EXCEPT !.pc = "waiting"]
  /\ UNCHANGED frame
  /\ UNCHANGED notAllVars

\* The scheduler starts the next tick: the frame counter advances and every
\* live task is to be visited in registration order, the composite (task 0)
\* before the children it started.
AllBeginTick ==
  /\ composite.pc = "waiting"
  /\ ~composite.ticking
  /\ frame' = frame + 1
  /\ composite' = [composite EXCEPT !.ticking = TRUE,
                                    !.pending = <<0>> \o LiveChildren]
  /\ UNCHANGED child
  /\ UNCHANGED notAllVars

\* The scheduler visits the composite: it completes when every child has
\* completed, and stays suspended otherwise.
AllResumeComposite ==
  /\ composite.ticking
  /\ composite.pending # <<>>
  /\ Head(composite.pending) = 0
  /\ composite' =
       IF \A i \in AllChildren : child[i].pc = "completed"
         THEN [composite EXCEPT !.pc = "completed", !.at = frame,
                                !.pending = Tail(@)]
       ELSE [composite EXCEPT !.pending = Tail(@)]
  /\ UNCHANGED <<frame, child>>
  /\ UNCHANGED notAllVars

\* The scheduler resumes a child: one more step of its effect, the last one
\* completes it.
AllResumeChild ==
  /\ composite.ticking
  /\ composite.pending # <<>>
  /\ Head(composite.pending) # 0
  /\ LET i == Head(composite.pending)
         p == child[i].p + 1
     IN child' = [child EXCEPT
                    ![i].p = p,
                    ![i].pc = IF p < child[i].time THEN "suspended"
                              ELSE "completed"]
  /\ composite' = [composite EXCEPT !.pending = Tail(@)]
  /\ UNCHANGED frame
  /\ UNCHANGED notAllVars

\* The scheduler ends the tick.
AllEndTick ==
  /\ composite.ticking
  /\ composite.pending = <<>>
  /\ composite' = [composite EXCEPT !.ticking = FALSE]
  /\ UNCHANGED <<frame, child>>
  /\ UNCHANGED notAllVars

AllNext ==
  \/ \E times \in [AllChildren -> 1 .. MaxFrames] : AllStart(times)
  \/ AllBeginTick
  \/ AllResumeComposite
  \/ AllResumeChild
  \/ AllEndTick

(***************************************************************************)
(* Part 6: the yoga tree: layoutChildren, appendedToView and the reads     *)
(* that call them, while scene code changes layout modes                   *)
(***************************************************************************)

\* Writes to a layout mode in one run.
MaxModeWrites == 2

NoYogaCache == [lc |-> FALSE, atv |-> FALSE]

NoneCalled == [lc |-> {}, atv |-> {}]

\* Every yoga node is created without children; nothing is cached yet.
YogaConstructed ==
  /\ yogaChildren = [n \in Nodes |-> <<>>]
  /\ yogaValid = [n \in Nodes |-> NoYogaCache]
  /\ yogaCalled = NoneCalled
  /\ modeWrites = 0

\* yoga.getParent(): the yoga node that owns c's yoga node, 0 for null
YogaGetParent(y, c) ==
  IF \E n \in Nodes : \E i \in 1 .. Len(y[n]) : y[n][i] = c
    THEN CHOOSE n \in Nodes : \E i \in 1 .. Len(y[n]) : y[n][i] = c
  ELSE 0

\* yoga.removeChild(child) on the yoga node of n
YogaRemoveChild(y, n, c) ==
  [y EXCEPT ![n] = SelectSeq(@, LAMBDA x : x # c)]

\* yoga.insertChild(child, i) on the yoga node of n, i counted from 0
YogaInsertChild(y, n, c, i) ==
  [y EXCEPT ![n] = SubSeq(@, 1, i) \o <<c>> \o SubSeq(@, i + 1, Len(@))]

\* child.yoga.getParent()?.removeChild(child.yoga), lines 819 and 850
YogaDetach(y, c) ==
  IF YogaGetParent(y, c) = 0 THEN y
  ELSE YogaRemoveChild(y, YogaGetParent(y, c), c)

\* Line 850 for every child pushed to the result, in the order of the loop.
RECURSIVE YogaDetachEach(_, _)
YogaDetachEach(y, list) ==
  IF list = <<>> THEN y
  ELSE YogaDetachEach(YogaDetach(y, Head(list)), Tail(list))

\* Lines 858-861: this.yoga.removeChild(this.yoga.getChild(0)), count times
RECURSIVE YogaRemoveFirst(_, _, _)
YogaRemoveFirst(y, n, count) ==
  IF count = 0 THEN y
  ELSE YogaRemoveFirst(YogaRemoveChild(y, n, y[n][1]), n, count - 1)

\* Lines 862-864: this.yoga.insertChild(elements[i], i) for i from 0
RECURSIVE YogaInsertFrom(_, _, _, _)
YogaInsertFrom(y, n, elements, i) ==
  IF i >= Len(elements) THEN y
  ELSE YogaInsertFrom(YogaInsertChild(y, n, elements[i + 1], i), n,
                      elements, i + 1)

\* The body of layoutChildren(), lines 842-866, on the yoga tree.
LayoutChildrenYoga(y, n) ==
  LET y1 == YogaDetachEach(y, LayoutChildren(n))
      y2 == YogaRemoveFirst(y1, n, Len(y1[n]))
  IN YogaInsertFrom(y2, n, LayoutChildren(n), 0)

\* @computed() layoutChildren(): a cached result is returned without
\* running the body; st is the yoga tree, the caches and the calls so far.
LayoutChildrenCall(st, n) ==
  LET called == [st EXCEPT !.called.lc = @ \cup {n}]
  IN IF st.valid[n].lc THEN called
     ELSE [called EXCEPT !.yoga = LayoutChildrenYoga(@, n),
                         !.valid[n].lc = TRUE]

\* @computed() appendedToView(), lines 815-823.
AppendedToViewCall(st, n) ==
  LET called == [st EXCEPT !.called.atv = @ \cup {n}]
  IN IF st.valid[n].atv THEN called
     ELSE [called EXCEPT !.yoga = IF IsLayoutRoot(n) THEN YogaDetach(@, n)
                                  ELSE @,
                         !.valid[n].atv = TRUE]

\* updateLayout(), lines 828-838, on the yoga tree.
RECURSIVE UpdateLayoutYoga(_, _)
RECURSIVE UpdateLayoutYogaEach(_, _)
UpdateLayoutYogaEach(st, children) ==
  IF children = <<>> THEN st
  ELSE UpdateLayoutYogaEach(UpdateLayoutYoga(st, Head(children)),
                            Tail(children))
UpdateLayoutYoga(st, n) ==
  IF LayoutEnabled(n)
    THEN UpdateLayoutYogaEach(LayoutChildrenCall(st, n), LayoutChildren(n))
  ELSE st

\* requestFontUpdate(), lines 872-877; View2D overrides it with applyFont
\* alone.
RECURSIVE RequestFontUpdateYoga(_, _)
RequestFontUpdateYoga(st, n) ==
  IF nodeKind[n] = "View2D" THEN st
  ELSE LET s1 == AppendedToViewCall(st, n)
       IN IF ParentTransform(n) = 0 THEN s1
          ELSE RequestFontUpdateYoga(s1, ParentTransform(n))

\* requestLayoutUpdate(), lines 802-813, and its override in View2D, on the
\* yoga tree.
RECURSIVE RequestLayoutUpdateYoga(_, _)
RequestLayoutUpdateYoga(st, n) ==
  IF nodeKind[n] = "View2D" THEN UpdateLayoutYoga(st, n)
  ELSE LET s1 == AppendedToViewCall(st, n)
       IN IF AppendedToView(n)
            THEN UpdateLayoutYoga(
                   IF ParentTransform(n) = 0 THEN s1
                   ELSE RequestFontUpdateYoga(s1, ParentTransform(n)),
                   n)
          ELSE RequestLayoutUpdateYoga(s1, ParentTransform(n))

\* The layout modes a cached layoutEnabled() of n has read:
\*   this.layout() ?? this.parentTransform()?.layoutEnabled() ?? false
RECURSIVE LayoutEnabledReads(_)
LayoutEnabledReads(n) ==
  IF layout[n] # "null" \/ ParentTransform(n) = 0 THEN {n}
  ELSE {n} \cup LayoutEnabledReads(ParentTransform(n))

\* The layout modes a cached isLayoutRoot() of n has read:
\*   !this.layoutEnabled() || !this.parentTransform()?.layoutEnabled()
IsLayoutRootReads(n) ==
  IF LayoutEnabled(n) /\ ParentTransform(n) # 0
    THEN LayoutEnabledReads(n) \cup LayoutEnabledReads(ParentTransform(n))
  ELSE LayoutEnabledReads(n)

\* The layout modes a cached layoutChildren() of n has read: layoutEnabled()
\* of every Layout the queue loop met (line 848).
LayoutChildrenReads(n) ==
  UNION {LayoutEnabledReads(c) : c \in {x \in LayoutNodes :
                                          ParentTransform(x) = n}}

\* Scene code or a draw reads computedSize() / computedPosition() of Layout
\* node n: the layout is requested along requestLayoutUpdate.
ReadLayout(n) ==
  /\ IsLayout(n)
  /\ LET st == RequestLayoutUpdateYoga(
                 [yoga |-> yogaChildren, valid |-> yogaValid,
                  called |-> NoneCalled], n)
     IN /\ yogaChildren' = st.yoga
        /\ yogaValid' = st.valid
        /\ yogaCalled' = st.called
  /\ UNCHANGED <<modeWrites, treeVars>>
  /\ UNCHANGED notYogaVars

\* Scene code writes the layout mode of Layout node m: every cached result
\* that read it is dirty.
SetLayoutMode(m, mode) ==
  /\ IsLayout(m)
  /\ mode # layout[m]
  /\ modeWrites < MaxModeWrites
  /\ modeWrites' = modeWrites + 1
  /\ layout' = [layout EXCEPT ![m] = mode]
  /\ yogaValid' = [n \in Nodes |->
                     [lc |-> yogaValid[n].lc /\ m \notin LayoutChildrenReads(n),
                      atv |-> yogaValid[n].atv /\ m \notin IsLayoutRootReads(n)]]
  /\ yogaCalled' = NoneCalled
  /\ UNCHANGED <<yogaChildren, nodeKind, parent, cache, solves>>
  /\ UNCHANGED notYogaVars

YogaNext ==
  \/ \E n \in Nodes : ReadLayout(n)
  \/ \E m \in Nodes, mode \in Modes : SetLayoutMode(m, mode)


(***************************************************************************)
(* Specifications                                                          *)
(***************************************************************************)

\* The exporter runs; the other parts stay as constructed.
InitExporter ==
  /\ hot \in BOOLEAN
  /\ ExpConstructed
  /\ LayInit
  /\ TreeConstructed
  /\ OffConstructed
  /\ AllConstructed
  /\ YogaConstructed

SpecExporter == InitExporter /\ [][ExpNext]_vars

\* The Layout size tweens run; the other parts stay as constructed.
InitLayout ==
  /\ hot = TRUE
  /\ ExpConstructed
  /\ LayInit
  /\ TreeConstructed
  /\ OffConstructed
  /\ AllConstructed
  /\ YogaConstructed

SpecLayout == InitLayout /\ [][LayNext]_vars

\* Scene code reads and writes the layout of any tree.
InitTree ==
  /\ hot = TRUE
  /\ ExpConstructed
  /\ LayInit
  /\ TreeInputs
  /\ OffConstructed
  /\ AllConstructed
  /\ YogaConstructed

SpecTree == InitTree /\ [][TreeNext]_vars

\* moveOffset is called on any node.
InitOffset ==
  /\ hot = TRUE
  /\ ExpConstructed
  /\ LayInit
  /\ TreeConstructed
  /\ OffInputs
  /\ AllConstructed
  /\ YogaConstructed

SpecOffset == InitOffset /\ [][OffNext]_vars

\* An all() of any children runs.
InitAll ==
  /\ hot = TRUE
  /\ ExpConstructed
  /\ LayInit
  /\ TreeConstructed
  /\ OffConstructed
  /\ AllConstructed
  /\ YogaConstructed

SpecAll == InitAll /\ [][AllNext]_vars

\* Scene code reads the layout of any tree and changes layout modes.
InitYoga ==
  /\ hot = TRUE
  /\ ExpConstructed
  /\ LayInit
  /\ TreeInputs
  /\ OffConstructed
  /\ AllConstructed
  /\ YogaConstructed

SpecYoga == InitYoga /\ [][YogaNext]_vars

(***************************************************************************)
(* Claims about ImageExporter                                              *)
(***************************************************************************)

\* C1: the number of frames awaiting acknowledgment never exceeds the
\* ceiling EXPORT_FRAME_LIMIT, because handleFrame adds a frame only while
\* the count is below the ceiling.
C1_InFlightWithinCeiling == Cardinality(frameLookup) <= EXPORT_FRAME_LIMIT

\* A handleFrame call for frame f starts in this step (it is the only
\* action that changes hf while the render loop is not inside a call).
HandleFrameCalled(f) == hf.pc = "idle" /\ hf' # hf /\ hf'.frame = f

\* C2: a handleFrame call for a frame already in the in-flight set is
\* rejected: it logs a warning and changes neither the in-flight set nor the
\* pipelines nor the messages; so a frame never has more than one pipeline
\* or unacknowledged export message at a time.
C2_DuplicateRejected ==
  /\ [][\A f \in Frames :
          (HandleFrameCalled(f) /\ f \in frameLookup) =>
            /\ hf'.outcome = "rejected"
            /\ hf'.pc = "idle"
            /\ log' = [level |-> "warn", frame |-> f]
            /\ UNCHANGED <<frameLookup, encoding, reading, msgs>>]_vars
  /\ [](\A f \in Frames : encoding[f] + reading[f] + msgs[f] <= 1)

\* C2 witness: a duplicate request was rejected with a warning while the
\* frame was in flight.
C2_Witness ==
  /\ hf.outcome = "rejected"
  /\ hf.frame \in frameLookup
  /\ log = [level |-> "warn", frame |-> hf.frame]

\* C3: stop(Success) completes only in a state where no frame is in flight:
\* its final clear() removes nothing, every accepted frame was acknowledged
\* or removed by a pipeline error before.
C3_StopDrains ==
  (phase = "stopped" /\ stopRes = "Success") =>
    (dropped = {} /\ frameLookup = {})

\* C3 witness: stop(Success) had to poll and then completed.
C3_Witness == phase = "stopped" /\ stopRes = "Success" /\ stopPolled

\* C4: once the signal is aborted no further hand-off (ceiling wait, toBlob,
\* FileReader read) is started, no frame is newly added to the in-flight set
\* and no export message is sent.
C4_NothingStartedAfterAbort ==
  [][aborted =>
       /\ frameLookup' \subseteq frameLookup
       /\ (hf'.pc = "wait" => hf.pc = "wait")
       /\ \A f \in Frames : /\ encoding'[f] <= encoding[f]
                             /\ reading'[f] <= reading[f]
                             /\ msgs'[f] <= msgs[f]]_vars

\* C5: a handleFrame call blocked at the ceiling leaves the wait only by
\* being accepted, when the signal is not aborted and the ceiling has
\* cleared, or by returning normally without adding its frame, when the
\* signal is aborted; it has no other outcome.
C5_CeilingWait ==
  [][hf.pc = "wait" =>
       \/ hf' = hf
       \/ /\ hf' = [hf EXCEPT !.pc = "idle", !.outcome = "accepted"]
          /\ ~aborted
          /\ Cardinality(frameLookup) <= EXPORT_FRAME_LIMIT
          /\ frameLookup' = frameLookup \cup {hf.frame}
       \/ /\ hf' = [hf EXCEPT !.pc = "idle", !.outcome = "aborted"]
          /\ aborted
          /\ frameLookup' = frameLookup]_vars

\* C5 witness: a call that waited at the ceiling was accepted afterwards.
C5_Witness ==
  /\ hf.pc = "idle"
  /\ hf.waited
  /\ hf.outcome = "accepted"
  /\ hf.frame \in frameLookup

(***************************************************************************)
(* Claims about the Layout size tweens                                     *)
(***************************************************************************)

\* The lock-holding tweens that have started and not yet ended.
Holders == {t \in Tasks : Active(t) /\ task[t].lock}

\* The end of a frame: the tick is over, every live thread was resumed.
FrameEnd == ticking = "idle"

\* C6: sizeLockCounter equals the number of lock-holding tweens that have
\* started and not yet ended by completion or cancellation (so it is never
\* negative, and 0 when no tween is active).
C6_CounterCountsHolders == sizeLockCounter = Cardinality(Holders)

\* Thread t starts a tween, completes it, in this step.
Starts(t) == task[t].pc = "idle" /\ task'[t].pc = "suspended"
Completes(t) == task[t].pc = "suspended" /\ task'[t].pc = "completed"
StartsAndCompletes(t) == task[t].pc = "idle" /\ task'[t].pc = "completed"

\* C7: a tweenWidth or tweenHeight whose declared length or whose target is
\* not a literal number adds exactly 1 to sizeLockCounter before its first
\* suspension point and subtracts exactly 1 when it completes; with no other
\* tween in between, the counter is back at its value from before the tween.
C7_LockTakenAndReturned ==
  [][\A t \in Tasks :
       /\ ( /\ Starts(t)
            /\ task'[t].kind \in {"width", "height"}
            /\ \E d \in Dims(task'[t].kind) :
                 ~IsNum(size[d]) \/ ~IsNum(task'[t].value[d]) )
          => /\ task'[t].lock
             /\ sizeLockCounter' = sizeLockCounter + 1
       /\ ( /\ Completes(t)
            /\ task[t].kind \in {"width", "height"}
            /\ task[t].lock )
          => /\ sizeLockCounter' = sizeLockCounter - 1
             /\ task[t].alone => sizeLockCounter' = task[t].c0
       /\ ( /\ StartsAndCompletes(t)
            /\ task'[t].kind \in {"width", "height"} )
          => sizeLockCounter' = sizeLockCounter]_vars

\* C7 witness: a lock-holding tweenHeight that ran alone over two frames has
\* completed and the counter is back at 0.
C7_Witness ==
  \E t \in Tasks :
    /\ task[t].pc = "completed"
    /\ task[t].kind = "height"
    /\ task[t].lock
    /\ task[t].p = 2
    /\ started = 1
    /\ sizeLockCounter = 0

\* C8: at the end of a frame in which sizeLockCounter is still greater than
\* 0, the lengths that a still active lock-holding tween is tweening have
\* not reverted to a non-numeric (auto or percentage) value, whichever of the
\* overlapping tweens finished first.
C8_NoRevertWhileLocked ==
  (FrameEnd /\ sizeLockCounter > 0) =>
    \A t \in Holders : \A d \in Dims(task[t].kind) : IsNum(size[d])

\* C9: at every suspension point of a size tween that runs with no other
\* tween beside it, the declared length is the literal number interpolated
\* for the current progress, which is `from` before the first step.
C9_MidTweenLiteral ==
  \A t \in Tasks :
    (Active(t) /\ task[t].alone) =>
      \A d \in Dims(task[t].kind) :
        /\ IsNum(size[d])
        /\ size[d].n = Lerp(task[t].from[d], task[t].to[d],
                            TimingNum(task[t].timing, task[t].p, task[t].time),
                            TimingDen(task[t].timing, task[t].p, task[t].time))
        /\ task[t].p = 0 => size[d].n = task[t].from[d]

\* C9 witness: a tween from an automatic width is suspended half way, alone,
\* with the width strictly between from and to.
C9_Witness ==
  \E t \in Tasks :
    /\ Active(t)
    /\ task[t].alone
    /\ task[t].kind = "width"
    /\ task[t].p = 1
    /\ IsNum(size.x)
    /\ task[t].from.x = NaturalSize
    /\ task[t].from.x < size.x.n
    /\ size.x.n < task[t].to.x

\* C10: when a size tween runs to completion the declared length is exactly
\* the `value` it was given (automatic or percentage again for such a target,
\* the number for a numeric one, never the resolved `to`), and the lock it
\* took is released.
C10_EndsAtTarget ==
  [][\A t \in Tasks :
       (Completes(t) \/ StartsAndCompletes(t)) =>
         /\ \A d \in Dims(task'[t].kind) : size'[d] = task'[t].value[d]
         /\ sizeLockCounter' =
              IF Completes(t) /\ task[t].lock THEN sizeLockCounter - 1
              ELSE sizeLockCounter]_vars

\* C10 witness: a tweenSize to an automatic width and a numeric height has
\* completed; the width is automatic again and the height is pinned.
C10_Witness ==
  \E t \in Tasks :
    /\ task[t].pc = "completed"
    /\ task[t].kind = "size"
    /\ task[t].p > 0
    /\ task[t].value = XY(Auto, Num(12))
    /\ size = XY(Auto, Num(12))
    /\ sizeLockCounter = 0

(***************************************************************************)
(* Claims about the node tree and the cached layout                        *)
(***************************************************************************)

\* C11: painting never triggers recomputation: a step of View2D.render or of
\* Layout.draw runs neither updateLayout nor requestLayoutUpdate nor
\* yoga.calculateLayout, also when a layout input was written since the last
\* resolution.
C11_PaintingOnlyReads ==
  [][(Render \/ \E n \in Nodes : Draw(n)) =>
       /\ solves' = solves
       /\ \A n \in Nodes : /\ cache'[n].upd = cache[n].upd
                           /\ cache'[n].req = cache[n].req]_vars

\* C12: for a layout root, the reads of computedSize and computedPosition
\* since the last write to a layout input of its layout subtree have called
\* yoga.calculateLayout on it exactly once in total, however many they were;
\* a write sets the count back, and the next read calls it once again.
C12_SolvedOncePerWrite ==
  \A r \in LayoutNodes :
    IsLayoutRoot(r) =>
      /\ solves[r] <= 1
      /\ (cache[r].size \/ cache[r].pos) => solves[r] = 1

\* C12 witness: a layout root whose computedSize and computedPosition were
\* both read, as was the computedSize of a node it resolves, with one call
\* of the solver.
C12_Witness ==
  \E r \in LayoutNodes, x \in LayoutNodes :
    /\ IsLayoutRoot(r)
    /\ x # r
    /\ RootOf(x) = r
    /\ cache[r].size
    /\ cache[r].pos
    /\ cache[x].size
    /\ solves[r] = 1

\* The proper ancestors of a node.
RECURSIVE Ancestors(_)
Ancestors(n) ==
  IF parent[n] = 0 THEN {} ELSE {parent[n]} \cup Ancestors(parent[n])

\* The Layout nodes among a node and its ancestors.
LayoutSelfOrAncestors(n) == {a \in Ancestors(n) \cup {n} : IsLayout(a)}

\* The nearest of a set of nodes on one branch: the one with the largest
\* number.
Nearest(S) == CHOOSE a \in S : \A b \in S : b <= a

\* The nearest layout root among a node and its Layout ancestors, 0 if none.
NearestLayoutRoot(n) ==
  LET S == {a \in LayoutSelfOrAncestors(n) : IsLayoutRoot(a)}
  IN IF S = {} THEN 0 ELSE Nearest(S)

\* C13: yoga.calculateLayout is only ever called on the yoga node of a
\* layout root; a node whose computedSize or computedPosition was read has
\* delegated requestLayoutUpdate along its Layout ancestors up to the
\* nearest layout root, whose yoga node was solved.
C13_SolvedAtLayoutRoot ==
  \A n \in LayoutNodes :
    /\ solves[n] > 0 => IsLayoutRoot(n)
    /\ (cache[n].size \/ cache[n].pos) =>
         LET r == NearestLayoutRoot(n)
         IN /\ r # 0
            /\ solves[r] = 1
            /\ \A a \in LayoutSelfOrAncestors(n) : a >= r => cache[a].req

\* C13 witness: the computedSize of a node two Layout levels below its
\* layout root was read; the root was solved, the nodes below were not.
C13_Witness ==
  \E n \in LayoutNodes :
    /\ cache[n].size
    /\ ~IsLayoutRoot(n)
    /\ ~IsLayoutRoot(ParentTransform(n))
    /\ solves[NearestLayoutRoot(n)] = 1
    /\ solves[n] = 0
    /\ solves[ParentTransform(n)] = 0

\* The mode of the nearest of a node and its Layout ancestors that has a
\* mode, FALSE if none has.
InheritedMode(n) ==
  LET S == {a \in LayoutSelfOrAncestors(n) : layout[a] # "null"}
  IN IF S = {} THEN FALSE ELSE layout[Nearest(S)] = "on"

\* C14: layoutEnabled() of every Layout node of every tree is the mode of
\* the nearest of the node and its Layout ancestors whose mode is not null,
\* and false if there is none.
C14_LayoutEnabledInherits ==
  \A n \in LayoutNodes : LayoutEnabled(n) = InheritedMode(n)

\* C14 witness: a node without a mode, below a plain Node, inherits "off"
\* from the nearest Layout above it; its computedSize was read, and it was
\* resolved as a layout root of its own.
C14_Witness ==
  \E n \in LayoutNodes :
    /\ layout[n] = "null"
    /\ parent[n] # 0
    /\ nodeKind[parent[n]] = "Node"
    /\ layout[ParentTransform(n)] = "off"
    /\ ~LayoutEnabled(n)
    /\ cache[n].size
    /\ solves[n] = 1

(***************************************************************************)
(* Claims about moveOffset                                                 *)
(***************************************************************************)

\* C15: moveOffset(o) leaves the node where it is: the rectangle the node
\* occupies in its parent's space (its box under localToParent) is the same
\* after the call as before it, for every size, offset, scale and rotation.
C15_MoveOffsetKeepsRect ==
  moved # <<>> => ParentRect(box) = ParentRect(moved[1])

(***************************************************************************)
(* Claims about all()                                                      *)
(***************************************************************************)

\* The longer and the shorter of the children's durations.
LongestChild == IF child[1].time >= child[2].time THEN 1 ELSE 2
ShortestChild == IF child[1].time >= child[2].time THEN 2 ELSE 1

NumericOnly(kind, sz, value) ==
  \A d \in Dims(kind) : IsNum(sz[d]) /\ IsNum(value[d])

\* C17: a size tween (tweenWidth, tweenHeight or tweenSize) whose declared
\* length and target are both literal numbers never touches
\* sizeLockCounter: the counter is the same after its start as before, and
\* the same after its completion as before.
C17_NumericTweenLeavesCounter ==
  [][\A t \in Tasks :
       /\ ( /\ Starts(t) \/ StartsAndCompletes(t)
            /\ NumericOnly(task'[t].kind, size, task'[t].value) )
          => sizeLockCounter' = sizeLockCounter
       /\ (Completes(t) /\ ~task[t].lock)
          => sizeLockCounter' = sizeLockCounter]_vars

\* C18: whenever applyFlex is evaluated while sizeLockCounter is greater
\* than 0 it sets the yoga node's flex grow and shrink to 0, and it applies
\* the declared grow() and shrink() only when the counter is 0; with several
\* concurrent lock holders the declared values come back only after the last
\* holder has released.
C18_FlexZeroWhileLocked ==
  [][/\ (sizeLockCounter > 0 /\ (yogaFlex' # yogaFlex \/ FrameEnd'))
          => yogaFlex' = "zero"
     /\ (yogaFlex' = "declared" /\ (yogaFlex' # yogaFlex \/ FrameEnd'))
          => sizeLockCounter = 0
     /\ (yogaFlex = "zero" /\ yogaFlex' = "declared") => Holders = {}
     /\ (FrameEnd' /\ Holders' # {}) => yogaFlex' = "zero"]_vars

\* Two tweens held the lock together, one has released, the other still
\* holds it, and flex grow and shrink are still 0.
C18_Witness ==
  /\ yogaFlex = "zero"
  /\ sizeLockCounter = 1
  /\ \E t, u \in Tasks :
       /\ t # u
       /\ Active(t) /\ task[t].lock
       /\ task[u].pc = "completed" /\ task[u].lock /\ task[u].p > 0
       /\ task[t].c0 + task[u].c0 = 1


(***************************************************************************)
(* Claims about the export pipeline                                        *)
(***************************************************************************)

\* C19: every frame number in the in-flight set always has either a
\* pipeline that will still send or fail it, or a sent message awaiting its
\* acknowledgment, including the frames whose pipeline was abandoned because
\* the abort signal was set; hence stop(Success) returns once every sent
\* message is acknowledged.
C19_InFlightStillServed ==
  \A f \in frameLookup : encoding[f] + reading[f] + msgs[f] > 0


\* A pipeline ends in this step without handing its frame on: its toBlob or
\* FileReader callback ran and started neither a read nor a message.  This
\* is a failure (a null blob, a FileReader error) or, once the signal is
\* aborted, possibly an abandoned pipeline.
PipelineEnds ==
  /\ frameLookup' \subseteq frameLookup
  /\ \/ encoding' # encoding /\ reading' = reading
     \/ encoding' = encoding /\ reading' # reading /\ msgs' = msgs

\* The pipeline that ends in this step fails.
PipelineFails ==
  /\ PipelineEnds
  /\ ~aborted \/ log' # log \/ frameLookup' # frameLookup

\* C20: when the encode/read pipeline of an accepted frame fails, the frame
\* is removed from the in-flight set and the error is logged, the
\* handleFrame call is not affected, no export message is sent for the
\* frame, and a later handleFrame for the same frame number is not rejected
\* as a duplicate.
C20_PipelineFailureReleasesFrame ==
  [][/\ PipelineFails =>
          LET f == log'.frame
          IN /\ log' = [level |-> "error", frame |-> f]
             /\ encoding'[f] + reading'[f] + 1 = encoding[f] + reading[f]
             /\ f \notin frameLookup'
             /\ frameLookup' = frameLookup \ {f}
             /\ hf' = hf
             /\ msgs' = msgs
             /\ encoding'[f] + reading'[f] + msgs'[f] = 0
     /\ ( /\ hf.pc = "idle"
          /\ hf' # hf
          /\ log = [level |-> "error", frame |-> hf'.frame]
          /\ encoding[hf'.frame] + reading[hf'.frame] + msgs[hf'.frame] = 0
          /\ ~aborted )
        => /\ hf'.outcome # "rejected"
           /\ log' = log
           /\ ~CeilingExceeded(frameLookup) =>
                /\ hf'.outcome = "accepted"
                /\ hf'.frame \in frameLookup'
                /\ encoding'[hf'.frame] = 1]_vars

\* C20 witness: the pipeline of a frame failed, the error was logged, and a
\* later handleFrame for the same frame number was accepted.
C20_Witness ==
  /\ log = [level |-> "error", frame |-> hf.frame]
  /\ hf.outcome = "accepted"
  /\ hf.frame \in frameLookup
  /\ encoding[hf.frame] = 1
  /\ ~aborted


(***************************************************************************)
(* Claims about the temporary writes of the size tweens                    *)
(***************************************************************************)

\* C21: when a size tween has to resolve an auto or percentage target, its
\* temporary write of the target and the write that restores `from` happen
\* with no suspension point between them: at the tween's first suspension
\* point, where other tasks run, the tweened lengths are the literal `from`
\* and never the target.
C21_TemporaryTargetNeverObserved ==
  [][\A t \in Tasks :
       ( /\ Starts(t)
         /\ \E d \in Dims(task'[t].kind) : ~IsNum(task'[t].value[d]) )
       => \A d \in Dims(task'[t].kind) :
            /\ IsNum(size'[d])
            /\ size'[d] = Num(task'[t].from[d])
            /\ ~IsNum(task'[t].value[d]) => size'[d] # task'[t].value[d]]_vars

\* C21 witness: a tweenWidth from a literal width to the automatic width is
\* at its first suspension point: the target was written and resolved (to a
\* width other than `from`) and the declared width is `from` again.
C21_Witness ==
  \E t \in Tasks :
    /\ Active(t)
    /\ task[t].p = 0
    /\ task[t].kind = "width"
    /\ task[t].value.x = Auto
    /\ task[t].to.x = NaturalSize
    /\ task[t].from.x # task[t].to.x
    /\ size.x = Num(task[t].from.x)


(***************************************************************************)
(* Claims about the delegation of requestLayoutUpdate and layoutChildren   *)
(***************************************************************************)

\* Following parent!.requestLayoutUpdate() from node n for at most k steps
\* never dereferences null and arrives at a node that solves the layout.
RECURSIVE DelegationEnds(_, _)
DelegationEnds(n, k) ==
  /\ n # 0
  /\ \/ nodeKind[n] = "View2D"
     \/ AppendedToView(n)
     \/ k > 0 /\ DelegationEnds(ParentTransform(n), k - 1)

\* C22: the non-null assertion in requestLayoutUpdate is always valid and
\* the delegation terminates: a node whose isLayoutRoot() is false has a
\* Layout ancestor, and following parent.requestLayoutUpdate() reaches a
\* node whose isLayoutRoot() is true after finitely many steps.
C22_DelegationReachesRoot ==
  \A n \in LayoutNodes :
    /\ ~IsLayoutRoot(n) => ParentTransform(n) \in LayoutNodes
    /\ DelegationEnds(n, MaxNodes)
    /\ cache[n].req => /\ IsLayoutRoot(RootOf(n))
                       /\ cache[RootOf(n)].req

\* C22 witness: a read at the third Layout of a chain was delegated twice
\* and solved at the top Layout, which has no Layout ancestor.
C22_Witness ==
  /\ nodeKind[1] = "Layout"
  /\ ParentTransform(3) = 2
  /\ ParentTransform(2) = 1
  /\ ~IsLayoutRoot(3)
  /\ ~IsLayoutRoot(2)
  /\ IsLayoutRoot(1)
  /\ cache[3].req
  /\ solves[1] = 1


\* The layout-enabled Layout descendants reachable from these siblings
\* through non-Layout nodes only, in document (depth-first) order.
RECURSIVE ReachableLayouts(_)
ReachableLayouts(siblings) ==
  IF siblings = <<>> THEN <<>>
  ELSE LET c == Head(siblings)
           here == IF ~IsLayout(c) THEN ReachableLayouts(Children(c))
                   ELSE IF LayoutEnabled(c) THEN <<c>>
                   ELSE <<>>
       IN here \o ReachableLayouts(Tail(siblings))

\* The yoga nodes that have c's yoga node among their children.
YogaParents(c) ==
  {n \in Nodes : \E i \in 1 .. Len(yogaChildren[n]) : yogaChildren[n][i] = c}

\* C23: after layoutChildren() the children of the node's yoga node are
\* exactly the yoga nodes of the returned list, in the same order; the list
\* holds every layout-enabled Layout descendant reachable through
\* non-Layout nodes only, in document order; each of them has this node's
\* yoga node as its only parent; and a layout root's yoga node has no yoga
\* parent after appendedToView().
C23_YogaChildrenAreLayoutChildren ==
  /\ \A n \in yogaCalled.lc :
       /\ LayoutChildren(n) = ReachableLayouts(Children(n))
       /\ yogaChildren[n] = LayoutChildren(n)
       /\ \A i \in 1 .. Len(LayoutChildren(n)) :
            YogaParents(LayoutChildren(n)[i]) = {n}
  /\ \A n \in yogaCalled.atv :
       (nodeKind[n] # "View2D" /\ IsLayoutRoot(n)) => YogaParents(n) = {}

============================================================================
